---- MODULE Spec2Model ----
(***************************************************************************)
(* Model of crates/oxc_transformer/src/options/engine_targets.rs:          *)
(* Engine name resolution, EngineTargets::parse_versions (lenient          *)
(* minimum-merge of raw (name, version) pairs), is_any_target,             *)
(* should_enable and has_feature.                                          *)
(*                                                                         *)
(* A raw version string is modelled by the sequence of its '.'-separated   *)
(* segments.  A segment n >= 0 stands for the decimal digits of n; the     *)
(* segment -1 stands for any text that u32::from_str rejects (empty text,  *)
(* a non-digit, a sign, an overflow).                                      *)
(***************************************************************************)
EXTENDS Integers, Sequences, FiniteSets, TLC

VARIABLES pc, versions, idx, engine_targets, built_by,
          required, pending, call, feature, ret

vars == <<pc, versions, idx, engine_targets, built_by,
          required, pending, call, feature, ret>>

----------------------------------------------------------------------------
(* Bounds of the model *)

\* longest pair list over the reduced name set
MaxLen == 3
\* longest pair list over the full name set
MaxNameLen == 2

----------------------------------------------------------------------------
(* Engine *)

Engine ==
    {"Chrome", "Deno", "Edge", "Firefox", "Hermes", "Ie", "Ios", "Node",
     "Opera", "Rhino", "Safari", "Samsung", "Electron", "OperaMobile",
     "Android"}

Ok(v) == [ok |-> TRUE, val |-> v]

EngineErr == [ok |-> FALSE, val |-> "()"]

\* the TODO of the enum followed: "op_mob" routed to OperaMobile
Engine_from_str_op_mob(s) ==
    CASE s \in {"chrome", "and_chr"} -> Ok("Chrome")
      [] s = "deno" -> Ok("Deno")
      [] s = "edge" -> Ok("Edge")
      [] s \in {"firefox", "and_ff"} -> Ok("Firefox")
      [] s = "hermes" -> Ok("Hermes")
      [] s \in {"ie", "ie_mob"} -> Ok("Ie")
      [] s \in {"ios", "ios_saf"} -> Ok("Ios")
      [] s = "node" -> Ok("Node")
      [] s = "opera" -> Ok("Opera")
      [] s = "rhino" -> Ok("Rhino")
      [] s = "safari" -> Ok("Safari")
      [] s = "samsung" -> Ok("Samsung")
      [] s = "electron" -> Ok("Electron")
      [] s \in {"opera_mobile", "op_mob"} -> Ok("OperaMobile")
      [] s = "android" -> Ok("Android")
      [] OTHER -> EngineErr

Engine_from_str(s) ==
    CASE s \in {"chrome", "and_chr"} -> Ok("Chrome")
      [] s = "deno" -> Ok("Deno")
      [] s = "edge" -> Ok("Edge")
      [] s \in {"firefox", "and_ff"} -> Ok("Firefox")
      [] s = "hermes" -> Ok("Hermes")
      [] s \in {"ie", "ie_mob"} -> Ok("Ie")
      [] s \in {"ios", "ios_saf"} -> Ok("Ios")
      [] s = "node" -> Ok("Node")
      [] s \in {"opera", "op_mob"} -> Ok("Opera")
      [] s = "rhino" -> Ok("Rhino")
      [] s = "safari" -> Ok("Safari")
      [] s = "samsung" -> Ok("Samsung")
      [] s = "electron" -> Ok("Electron")
      [] s = "opera_mobile" -> Ok("OperaMobile")
      [] s = "android" -> Ok("Android")
      [] OTHER -> EngineErr

----------------------------------------------------------------------------
(* Version: the triple (major, minor, patch) of the browserslist crate *)

VersionErr == [ok |-> FALSE, val |-> <<0, 0, 0>>]

\* the first three segments decide; a missing segment is 0, a segment that
\* is no u32 fails the parse, segments after the third are ignored
Version_from_str(raw) ==
    LET seg(k) == IF k <= Len(raw) THEN raw[k] ELSE 0
    IN  IF seg(1) >= 0 /\ seg(2) >= 0 /\ seg(3) >= 0
        THEN Ok(<<seg(1), seg(2), seg(3)>>)
        ELSE VersionErr

\* derived Ord of the tuple struct: lexicographic, major first
VersionLt(a, b) ==
    \/ a[1] < b[1]
    \/ a[1] = b[1] /\ a[2] < b[2]
    \/ a[1] = b[1] /\ a[2] = b[2] /\ a[3] < b[3]

----------------------------------------------------------------------------
(* EngineTargets: FxHashMap<Engine, Version>, a function on a set of engines *)

EmptyTargets == [e \in {} |-> <<0, 0, 0>>]

Insert(map, engine, version) ==
    [e \in DOMAIN map \cup {engine} |-> IF e = engine THEN version ELSE map[e]]

is_any_target_single(map) == Cardinality(DOMAIN map) <= 1

is_any_target(map) == Cardinality(DOMAIN map) = 0

\* the stored version is overwritten whatever it is
MergePair_overwrite(map, pair) ==
    LET engine == Engine_from_str(pair[1])
        version == Version_from_str(pair[2])
    IN  IF ~engine.ok THEN map
        ELSE IF ~version.ok THEN map
        ELSE Insert(map, engine.val, version.val)

\* an unparsable version is taken as Version::default()
MergePair_default(map, pair) ==
    LET engine == Engine_from_str(pair[1])
        version == Version_from_str(pair[2])
    IN  IF ~engine.ok THEN map
        ELSE IF engine.val \in DOMAIN map
        THEN IF VersionLt(version.val, map[engine.val])
             THEN Insert(map, engine.val, version.val)
             ELSE map
        ELSE Insert(map, engine.val, version.val)

\* the comparison of and_modify turned round: the highest version is kept
MergePair_max(map, pair) ==
    LET engine == Engine_from_str(pair[1])
        version == Version_from_str(pair[2])
    IN  IF ~engine.ok THEN map
        ELSE IF ~version.ok THEN map
        ELSE IF engine.val \in DOMAIN map
        THEN IF VersionLt(map[engine.val], version.val)
             THEN Insert(map, engine.val, version.val)
             ELSE map
        ELSE Insert(map, engine.val, version.val)

\* one iteration of the loop of parse_versions
MergePair(map, pair) ==
    LET engine == Engine_from_str(pair[1])
        version == Version_from_str(pair[2])
    IN  IF ~engine.ok THEN map
        ELSE IF ~version.ok THEN map
        ELSE IF engine.val \in DOMAIN map
        THEN IF VersionLt(version.val, map[engine.val])
             THEN Insert(map, engine.val, version.val)
             ELSE map
        ELSE Insert(map, engine.val, version.val)

RECURSIVE MergeFrom(_, _, _)
MergeFrom(map, list, k) ==
    IF k > Len(list) THEN map
    ELSE MergeFrom(MergePair(map, list[k]), list, k + 1)

\* parse_versions as a function of its argument
parse_versions(list) == MergeFrom(EmptyTargets, list, 1)

----------------------------------------------------------------------------
(* should_enable / has_feature *)

\* the comparison made inclusive
Triggers_le(self, engine, version) ==
    /\ engine \in DOMAIN self
    /\ ~VersionLt(version, self[engine])

\* an engine absent from self counted as unsupported
Triggers_absent(self, engine, version) ==
    \/ engine \notin DOMAIN self
    \/ VersionLt(self[engine], version)

\* body of the loop of should_enable for one entry of the argument
Triggers(self, engine, version) ==
    /\ engine \in DOMAIN self
    /\ VersionLt(self[engine], version)

RECURSIVE should_enable_from(_, _, _)
should_enable_from(self, targets, todo) ==
    IF todo = {} THEN FALSE
    ELSE LET e == CHOOSE x \in todo : TRUE
         IN  IF Triggers(self, e, targets[e]) THEN TRUE
             ELSE should_enable_from(self, targets, todo \ {e})

\* should_enable as a function, the entries visited in one fixed order
should_enable(self, targets) == should_enable_from(self, targets, DOMAIN targets)

ESFeature == {"ES2015ArrowFunctions", "ES2018ObjectRestSpread", "ES2020NullishCoalescingOperator"}

\* the static table of es_features::features()
features ==
    [f \in ESFeature |->
        CASE f = "ES2015ArrowFunctions" ->
               [e \in {"Chrome", "Firefox"} |->
                   IF e = "Chrome" THEN <<2, 0, 0>> ELSE <<1, 1, 0>>]
          [] f = "ES2018ObjectRestSpread" ->
               [e \in {"Chrome", "OperaMobile", "Node"} |->
                   IF e = "Chrome" THEN <<1, 1, 0>> ELSE <<2, 0, 0>>]
          [] OTHER ->
               [e \in {"Node"} |-> <<1, 0, 0>>]]

\* the table entry of another feature is looked up
has_feature_required_other(f) ==
    features[CHOOSE g \in ESFeature : g # f]

\* the argument has_feature passes to should_enable
has_feature_required(f) == features[f]

----------------------------------------------------------------------------
(* Inputs *)

Lists(S, n) == UNION {[1..k -> S] : k \in 0..n}

PartialMaps(E, V) == UNION {[D -> V] : D \in SUBSET E}

AllNames ==
    {"chrome", "and_chr", "deno", "edge", "firefox", "and_ff", "hermes",
     "ie", "ie_mob", "ios", "ios_saf", "node", "opera", "op_mob", "rhino",
     "safari", "samsung", "electron", "opera_mobile", "android",
     "operamobile", "Chrome", "bogus", ""}

Names == {"chrome", "and_chr", "opera_mobile", "bogus"}

\* "1", "2", "1.1" and a string with an unparsable minor segment
RawVersions == {<<1>>, <<2>>, <<1, 1>>, <<1, -1>>}

ArgLists ==
    Lists(Names \X RawVersions, MaxLen)
        \cup Lists(AllNames \X {<<1>>}, MaxNameLen)

ArgEngines == {"Chrome", "OperaMobile", "Firefox"}

ArgVersions == {<<1, 1, 0>>, <<2, 0, 0>>}

ArgTargets == PartialMaps(ArgEngines, ArgVersions)

----------------------------------------------------------------------------
(* State machine *)

\* EngineTargets::parse_versions(versions) entered, or EngineTargets::new(map)
Init ==
    /\ \/ /\ versions \in ArgLists
          /\ engine_targets = EmptyTargets
          /\ pc = "parse_versions"
          /\ built_by = "parse_versions"
       \/ /\ versions = <<>>
          /\ engine_targets \in ArgTargets
          /\ pc = "ready"
          /\ built_by = "new"
    /\ idx = 0
    /\ required = EmptyTargets
    /\ pending = {}
    /\ call = "none"
    /\ feature = "none"
    /\ ret = FALSE

\* one iteration of `for (engine, version) in versions`
ParseStep ==
    /\ pc = "parse_versions"
    /\ idx < Len(versions)
    /\ engine_targets' = MergePair(engine_targets, versions[idx + 1])
    /\ idx' = idx + 1
    /\ UNCHANGED <<pc, versions, built_by, required, pending, call, feature, ret>>

\* the loop is exhausted: parse_versions returns engine_targets
ParseReturn ==
    /\ pc = "parse_versions"
    /\ idx = Len(versions)
    /\ pc' = "ready"
    /\ UNCHANGED <<versions, idx, engine_targets, built_by, required, pending,
                   call, feature, ret>>

IsAnyTarget ==
    /\ pc \in {"ready", "returned"}
    /\ ret' = is_any_target(engine_targets)
    /\ call' = "is_any_target"
    /\ feature' = "none"
    /\ pc' = "returned"
    /\ UNCHANGED <<versions, idx, engine_targets, built_by, required, pending>>

\* Entry of should_enable.  Gating reads the map only: the record of the
\* argument list of parse_versions (moved into its loop) is released here.
Enter(targets) ==
    /\ pc \in {"ready", "returned"}
    /\ required' = targets
    /\ pending' = DOMAIN targets
    /\ ret' = FALSE
    /\ pc' = "should_enable"
    /\ versions' = <<>>
    /\ idx' = 0
    /\ built_by' = "new"
    /\ UNCHANGED engine_targets

ShouldEnableCall ==
    \E targets \in ArgTargets :
        /\ Enter(targets)
        /\ call' = "should_enable"
        /\ feature' = "none"

HasFeatureCall ==
    \E f \in ESFeature :
        /\ Enter(has_feature_required(f))
        /\ call' = "has_feature"
        /\ feature' = f

\* one iteration of `for (engine, version) in &engine_targets.0`; the hash
\* map yields its entries in an unspecified order
ShouldEnableVisit ==
    /\ pc = "should_enable"
    /\ \E engine \in pending :
          IF Triggers(engine_targets, engine, required[engine])
          THEN /\ ret' = TRUE
               /\ pc' = "returned"
               /\ UNCHANGED pending
          ELSE /\ pending' = pending \ {engine}
               /\ UNCHANGED <<ret, pc>>
    /\ UNCHANGED <<versions, idx, engine_targets, built_by, required, call, feature>>

\* every entry visited: should_enable returns false
ShouldEnableExhausted ==
    /\ pc = "should_enable"
    /\ pending = {}
    /\ ret' = FALSE
    /\ pc' = "returned"
    /\ UNCHANGED <<versions, idx, engine_targets, built_by, required, pending,
                   call, feature>>

Next ==
    \/ ParseStep
    \/ ParseReturn
    \/ IsAnyTarget
    \/ ShouldEnableCall
    \/ HasFeatureCall
    \/ ShouldEnableVisit
    \/ ShouldEnableExhausted

Spec == Init /\ [][Next]_vars

TypeOK ==
    /\ pc \in {"parse_versions", "ready", "should_enable", "returned"}
    /\ idx \in 0..Len(versions)
    /\ DOMAIN engine_targets \subseteq Engine
    /\ pending \subseteq DOMAIN required
    /\ ret \in BOOLEAN

----------------------------------------------------------------------------
(* Properties *)

\* parse_versions has returned and its argument is still on record
Returned == pc = "ready" /\ built_by = "parse_versions"

Valid(pair) == Engine_from_str(pair[1]).ok /\ Version_from_str(pair[2]).ok

\* the parsed versions of the pairs of list that resolve to engine e
ParsedFor(list, e) ==
    {Version_from_str(list[i][2]).val :
        i \in {j \in 1..Len(list) : Valid(list[j]) /\ Engine_from_str(list[j][1]).val = e}}

\* C1: when parse_versions returns, the keys of the map are exactly the
\* engines some pair with a parsable version resolves to, and each value is
\* the minimum, in Version order, of the parsed versions of those pairs.
C1_MinimumMerge ==
    Returned =>
        /\ DOMAIN engine_targets = {e \in Engine : ParsedFor(versions, e) # {}}
        /\ \A e \in DOMAIN engine_targets :
              /\ engine_targets[e] \in ParsedFor(versions, e)
              /\ \A v \in ParsedFor(versions, e) : ~VersionLt(v, engine_targets[e])

\* a returned map whose engine got a higher version first and a lower one later
C1_Witness ==
    /\ Returned
    /\ \E i, j \in 1..Len(versions) :
          /\ i < j
          /\ Valid(versions[i]) /\ Valid(versions[j])
          /\ Engine_from_str(versions[i][1]) = Engine_from_str(versions[j][1])
          /\ VersionLt(Version_from_str(versions[j][2]).val,
                       Version_from_str(versions[i][2]).val)
          /\ engine_targets[Engine_from_str(versions[i][1]).val]
                = Version_from_str(versions[j][2]).val

\* C2: parse_versions never fails and drops invalid pairs: at every point of
\* the loop the map is the one the valid pairs processed so far produce alone,
\* so the returned map equals the result for the list without its invalid pairs.
C2_InvalidPairsDropped ==
    built_by = "parse_versions" =>
        /\ DOMAIN engine_targets \subseteq Engine
        /\ engine_targets = parse_versions(SelectSeq(SubSeq(versions, 1, idx), Valid))

\* an unknown name and an unparsable version, each followed by a valid pair
C2_Witness ==
    /\ Returned
    /\ engine_targets # EmptyTargets
    /\ \E i, j, k \in 1..Len(versions) :
          /\ i < k /\ j < k
          /\ ~Engine_from_str(versions[i][1]).ok
          /\ Engine_from_str(versions[j][1]).ok
          /\ ~Version_from_str(versions[j][2]).ok
          /\ Valid(versions[k])

\* C3: should_enable returns true iff some engine present in both maps has a
\* strictly lower version in self than in the argument, whatever the order in
\* which the entries of the argument are visited.
C3_ShouldEnable ==
    (pc = "returned" /\ call = "should_enable") =>
        (ret <=> \E e \in DOMAIN engine_targets \cap DOMAIN required :
                    VersionLt(engine_targets[e], required[e]))

\* true returned after an entry with equal versions was visited and passed over
C3_Witness ==
    /\ pc = "returned" /\ call = "should_enable" /\ ret
    /\ \E e \in DOMAIN engine_targets \cap DOMAIN required :
          /\ engine_targets[e] = required[e]
          /\ e \notin pending

\* C4: when self and the argument share no engine (self empty included),
\* should_enable returns false.
C4_AbsentEnginesSkipped ==
    (/\ pc = "returned"
     /\ call \in {"should_enable", "has_feature"}
     /\ DOMAIN engine_targets \cap DOMAIN required = {}) => ~ret

\* disjoint non-empty maps, the version of self below every required version
C4_Witness ==
    /\ pc = "returned" /\ call = "should_enable" /\ ~ret
    /\ DOMAIN engine_targets # {} /\ DOMAIN required # {}
    /\ DOMAIN engine_targets \cap DOMAIN required = {}
    /\ \A e \in DOMAIN engine_targets : \A r \in DOMAIN required :
          VersionLt(engine_targets[e], required[r])

\* C5 as stated: is_any_target is true iff the map has no entry, and for the
\* result of parse_versions(pairs) iff pairs is the empty list.
C5_Original ==
    (pc = "returned" /\ call = "is_any_target") =>
        /\ ret <=> DOMAIN engine_targets = {}
        /\ built_by = "parse_versions" => (ret <=> versions = <<>>)

\* C5 amended: is_any_target is true iff the map has no entry, and for the
\* result of parse_versions(pairs) iff no pair of pairs has both a recognized
\* engine name and a parsable version (the empty list included).
C5_Amended ==
    (pc = "returned" /\ call = "is_any_target") =>
        /\ ret <=> DOMAIN engine_targets = {}
        /\ built_by = "parse_versions" =>
              (ret <=> \A i \in 1..Len(versions) : ~Valid(versions[i]))

\* a non-empty list of invalid pairs only yields any target
C5_Witness ==
    /\ pc = "returned" /\ call = "is_any_target" /\ ret
    /\ built_by = "parse_versions"
    /\ Len(versions) >= 2

CanonicalNames ==
    {"chrome", "deno", "edge", "firefox", "hermes", "ie", "ios", "node",
     "opera", "rhino", "safari", "samsung", "electron", "opera_mobile",
     "android"}

Aliases == {"and_chr", "ie_mob", "ios_saf", "op_mob", "and_ff"}

AliasTarget(n) ==
    CASE n = "and_chr" -> [name |-> "chrome", engine |-> "Chrome"]
      [] n = "ie_mob" -> [name |-> "ie", engine |-> "Ie"]
      [] n = "ios_saf" -> [name |-> "ios", engine |-> "Ios"]
      [] n = "op_mob" -> [name |-> "opera", engine |-> "Opera"]
      [] n = "and_ff" -> [name |-> "firefox", engine |-> "Firefox"]

\* C6: for every name parse_versions has resolved, an alias resolves to the
\* engine of its canonical name, a canonical name to an engine no other
\* canonical name resolves to, any other string to the error value; with a
\* parsable version the resolved engine is a key of the map.
C6_NameResolution ==
    built_by = "parse_versions" =>
        \A i \in 1..idx :
            LET n == versions[i][1]
                r == Engine_from_str(n)
            IN  /\ n \in Aliases =>
                      /\ r = Ok(AliasTarget(n).engine)
                      /\ r = Engine_from_str(AliasTarget(n).name)
                /\ n \in CanonicalNames =>
                      /\ r.ok /\ r.val \in Engine
                      /\ \A m \in CanonicalNames \ {n} : Engine_from_str(m) # r
                /\ n \notin CanonicalNames \cup Aliases => r = EngineErr
                /\ (r.ok /\ Version_from_str(versions[i][2]).ok)
                      => r.val \in DOMAIN engine_targets
                /\ ~r.ok => Cardinality(DOMAIN engine_targets) < idx

\* "op_mob" and "opera" in one list end up under the single key Opera
C6_Witness ==
    /\ Returned
    /\ \E i, j \in 1..Len(versions) :
          versions[i][1] = "op_mob" /\ versions[j][1] = "opera"
    /\ DOMAIN engine_targets = {"Opera"}

\* C7: has_feature(f) returns what should_enable returns for the table entry
\* of f, the lookup cannot miss, and no step of the call changes self.
C7_HasFeature ==
    /\ [](call = "has_feature" =>
            /\ feature \in DOMAIN features
            /\ required = features[feature]
            /\ pc = "returned" => ret = should_enable(engine_targets, features[feature]))
    /\ [][call' = "has_feature" => engine_targets' = engine_targets]_vars

\* has_feature returned true for a self of two engines
C7_Witness ==
    /\ pc = "returned" /\ call = "has_feature" /\ ret
    /\ Cardinality(DOMAIN engine_targets) >= 2

\* C8: minimum-merge is idempotent: the list followed by itself gives the
\* returned map, and merging any pair of the list into the returned map
\* changes nothing.
C8_Idempotent ==
    Returned =>
        /\ parse_versions(versions \o versions) = engine_targets
        /\ \A i \in 1..Len(versions) : MergePair(engine_targets, versions[i]) = engine_targets

\* the list holds a pair whose version is above the stored minimum
C8_Witness ==
    /\ Returned
    /\ \E i \in 1..Len(versions) :
          /\ Valid(versions[i])
          /\ VersionLt(engine_targets[Engine_from_str(versions[i][1]).val],
                       Version_from_str(versions[i][2]).val)

MaxListLen == IF MaxLen > MaxNameLen THEN MaxLen ELSE MaxNameLen

Perms ==
    [n \in 0..MaxListLen |->
        {p \in [1..n -> 1..n] : \A i, j \in 1..n : p[i] = p[j] => i = j}]

\* C9: every permutation of the argument list yields the returned map.
C9_OrderIndependent ==
    Returned =>
        \A p \in Perms[Len(versions)] :
            parse_versions([i \in 1..Len(versions) |-> versions[p[i]]]) = engine_targets

\* alias and canonical name of one engine with different versions, and a
\* third pair
C9_Witness ==
    /\ Returned
    /\ Len(versions) = 3
    /\ \E i, j \in 1..3 :
          /\ versions[i][1] = "chrome" /\ versions[j][1] = "and_chr"
          /\ Valid(versions[i]) /\ Valid(versions[j])
          /\ VersionLt(Version_from_str(versions[i][2]).val,
                       Version_from_str(versions[j][2]).val)

\* C10: each iteration of parse_versions only tightens the map: no engine is
\* removed, no stored version rises, only the entry of the engine the pair
\* resolves to may change, and a dropped pair changes nothing.
C10_OnlyTightens ==
    [][(pc = "parse_versions" /\ idx' = idx + 1) =>
        LET pair == versions[idx + 1]
            r == Engine_from_str(pair[1])
            changed == {e \in DOMAIN engine_targets' :
                           \/ e \notin DOMAIN engine_targets
                           \/ engine_targets'[e] # engine_targets[e]}
        IN  /\ DOMAIN engine_targets \subseteq DOMAIN engine_targets'
            /\ \A e \in DOMAIN engine_targets :
                  ~VersionLt(engine_targets[e], engine_targets'[e])
            /\ changed \subseteq (IF r.ok THEN {r.val} ELSE {})
            /\ Cardinality(changed) <= 1
            /\ ~Valid(pair) => engine_targets' = engine_targets]_vars

\* the pair just processed lowered the version an earlier pair had stored,
\* while another engine's entry stayed
C10_Witness ==
    /\ pc = "parse_versions" /\ idx = 3
    /\ Valid(versions[1]) /\ Valid(versions[2]) /\ Valid(versions[3])
    /\ Engine_from_str(versions[1][1]) = Engine_from_str(versions[3][1])
    /\ Engine_from_str(versions[1][1]) # Engine_from_str(versions[2][1])
    /\ VersionLt(Version_from_str(versions[3][2]).val, Version_from_str(versions[1][2]).val)
    /\ engine_targets[Engine_from_str(versions[3][1]).val] = Version_from_str(versions[3][2]).val

====
